---- MODULE Spec2Model ----
(***************************************************************************)
(* Model of the rule evaluation engine of mysqltuner.py                    *)
(* (evaluate_and_print and the helpers it calls).                          *)
(*                                                                         *)
(* Text is modelled as text: rule-file lines, expressions and output lines *)
(* are strings, and the helpers of the source (strip, split, the regular   *)
(* expressions, repr, str, float formatting) are computed character by     *)
(* character.  Python's eval is modelled for the expression grammar given  *)
(* at PyEval; a text outside that grammar evaluates to Unmodelled, and the *)
(* inputs of the model never produce it.                                   *)
(***************************************************************************)
EXTENDS Integers, Sequences, FiniteSets, TLC

\* the state of a run of evaluate_and_print: its arguments, its locals, the output
VARIABLES lines, variables, output_mode, show_recommendations,
          i, pc, current_category, recommendation_pairs,
          rule, value, displayed_metric_line, out

(***************************************************************************)
(* Characters and Python's str helpers                                     *)
(***************************************************************************)
Ch(s, k) == SubSeq(s, k, k)

DigitChars == "0123456789"
UpperChars == "ABCDEFGHIJKLMNOPQRSTUVWXYZ"
LowerChars == "abcdefghijklmnopqrstuvwxyz"

CharsOf(s) == {Ch(s, k) : k \in 1..Len(s)}

\* the least and the greatest element of a non-empty set of integers
Min(S) == CHOOSE k \in S : \A j \in S : k <= j
Max(S) == CHOOSE k \in S : \A j \in S : k >= j

Drop(s, n) == SubSeq(s, n + 1, Len(s))
Take(s, n) == SubSeq(s, 1, n)

Digit == CharsOf(DigitChars)
Upper == CharsOf(UpperChars)
Letter == Upper \cup CharsOf(LowerChars)
\* str.strip() with no argument strips whitespace; \s of the re module
Space == {" ", "\t", "\n", "\r"}
\* [A-Za-z_] and [A-Za-z0-9_]
IdentStart == Letter \cup {"_"}
WordChar == IdentStart \cup Digit

DigitVal(c) == (CHOOSE k \in 1..10 : Ch(DigitChars, k) = c) - 1

\* str.lower() of one character
LowerCh(c) ==
    IF c \in Upper
    THEN Ch(LowerChars, CHOOSE k \in 1..26 : Ch(UpperChars, k) = c)
    ELSE c

\* str.lower(), halving the text
RECURSIVE lower(_)
lower(s) ==
    IF Len(s) = 0 THEN ""
    ELSE IF Len(s) = 1 THEN LowerCh(s)
    ELSE lower(Take(s, Len(s) \div 2)) \o lower(Drop(s, Len(s) \div 2))

\* the length of the longest prefix of s made of characters of set cs
Span(s, cs) ==
    IF \A k \in 1..Len(s) : Ch(s, k) \in cs THEN Len(s)
    ELSE Min({k \in 1..Len(s) : Ch(s, k) \notin cs}) - 1

lstrip(s) == Drop(s, Span(s, Space))

rstrip(s) ==
    IF \A k \in 1..Len(s) : Ch(s, k) \in Space THEN ""
    ELSE Take(s, Max({k \in 1..Len(s) : Ch(s, k) \notin Space}))

strip(s) == rstrip(lstrip(s))

startswith(s, p) == Len(s) >= Len(p) /\ SubSeq(s, 1, Len(p)) = p

\* s.find(p, k): the index of the first occurrence of p in s at or after k, 0 if none
Find(s, p, k) ==
    IF \E j \in k..(Len(s) - Len(p) + 1) : SubSeq(s, j, j + Len(p) - 1) = p
    THEN Min({j \in k..(Len(s) - Len(p) + 1) : SubSeq(s, j, j + Len(p) - 1) = p})
    ELSE 0

\* p in s
Contains(s, p) == Find(s, p, 1) # 0

\* s.split(sep): cut at each occurrence of sep, scanning left to right
RECURSIVE split(_, _)
SplitFrom(s, sep, k) ==
    IF k = 0 THEN <<s>>
    ELSE <<SubSeq(s, 1, k - 1)>> \o split(SubSeq(s, k + Len(sep), Len(s)), sep)

split(s, sep) == SplitFrom(s, sep, Find(s, sep, 1))

(***************************************************************************)
(* Values.  A Python value is a record [t, n, d]:                          *)
(*   int    n = the integer and d = "" when it has at most SmallDigits     *)
(*          digits; otherwise d = its decimal digits and n = its sign      *)
(*          (Python integers are unbounded, the model's are not)           *)
(*   float  n = the value in thousandths (magnitude below 10^SmallDigits)  *)
(*   bool   n = 1 or 0                                                     *)
(*   str    d = the text                                                   *)
(***************************************************************************)
SmallDigits == 6
Scale == 1000

IntV(k) == [t |-> "int", n |-> k, d |-> ""]
BigV(sign, digits) == [t |-> "int", n |-> sign, d |-> digits]
FloatV(m) == [t |-> "float", n |-> m, d |-> ""]
BoolV(b) == [t |-> "bool", n |-> IF b THEN 1 ELSE 0, d |-> ""]
StrV(s) == [t |-> "str", n |-> 0, d |-> s]
\* a built-in or helper function object of the evaluation environment
FuncV(name) == [t |-> "func", n |-> 0, d |-> name]
\* the result of an expression outside the modelled grammar
Unmodelled == [t |-> "unmodelled", n |-> 0, d |-> ""]

IsBig(v) == v.t = "int" /\ v.d # ""
\* isinstance(value, (int, float)); bool is a subclass of int
IsNumber(v) == v.t \in {"int", "float", "bool"}

RECURSIVE NatToStr(_)
NatToStr(k) ==
    IF k < 10 THEN Ch(DigitChars, k + 1)
    ELSE NatToStr(k \div 10) \o Ch(DigitChars, (k % 10) + 1)

IntToStr(k) == IF k < 0 THEN "-" \o NatToStr(-k) ELSE NatToStr(k)

\* the value of a string of at most nine digits
RECURSIVE StrToNat(_)
StrToNat(s) ==
    IF s = "" THEN 0
    ELSE 10 * StrToNat(SubSeq(s, 1, Len(s) - 1)) + DigitVal(Ch(s, Len(s)))

\* digits without their leading zeros ("0" for zero)
StripZeros(s) ==
    IF s # "" /\ Span(s, {"0"}) = Len(s) THEN "0" ELSE Drop(s, Span(s, {"0"}))

\* digits without their trailing zeros
rstripZeros(s) ==
    IF \A k \in 1..Len(s) : Ch(s, k) = "0" THEN ""
    ELSE Take(s, Max({k \in 1..Len(s) : Ch(s, k) # "0"}))

\* repr of a float given in thousandths: shortest digits, at least one decimal
\* the decimals of fr thousandths, without trailing zeros but at least one
Decimals(fr) ==
    Take(Ch(DigitChars, (fr \div 100) + 1) \o Ch(DigitChars, ((fr \div 10) % 10) + 1)
            \o Ch(DigitChars, (fr % 10) + 1),
         IF fr % 100 = 0 THEN 1 ELSE IF fr % 10 = 0 THEN 2 ELSE 3)

FloatToStr(m) ==
    (IF m < 0 THEN "-" ELSE "")
        \o NatToStr((IF m < 0 THEN -m ELSE m) \div Scale) \o "."
        \o Decimals((IF m < 0 THEN -m ELSE m) % Scale)

\* str(value), as an f-string or print renders it
PyStr(v) ==
    CASE v.t = "str" -> v.d
      [] v.t = "int" -> IF IsBig(v) THEN (IF v.n < 0 THEN "-" ELSE "") \o v.d
                        ELSE IntToStr(v.n)
      [] v.t = "float" -> FloatToStr(v.n)
      [] v.t = "bool" -> IF v.n = 1 THEN "True" ELSE "False"
      [] v.t = "func" -> "<built-in function " \o v.d \o ">"
      [] OTHER -> "<unmodelled>"

(***************************************************************************)
(* is_numeric_string: ^-?\d+\.?\d*(e[+-]?\d+)?$ , case-insensitive; $ also *)
(* matches before a final newline.                                         *)
(***************************************************************************)
AfterSign(s) == IF startswith(s, "-") THEN Drop(s, 1) ELSE s
AfterDigits(s) == Drop(s, Span(s, Digit))
AfterDot(s) == IF startswith(s, ".") THEN Drop(s, 1) ELSE s
AfterExpSign(s) == IF s # "" /\ Ch(s, 1) \in {"+", "-"} THEN Drop(s, 1) ELSE s

\* what is left of s after the optional exponent group (e[+-]?\d+)?
AfterExponent(s) ==
    IF /\ s # "" /\ Ch(s, 1) \in {"e", "E"}
       /\ Span(AfterExpSign(Drop(s, 1)), Digit) >= 1
    THEN AfterDigits(AfterExpSign(Drop(s, 1)))
    ELSE s

is_numeric_string(text) ==
    /\ Span(AfterSign(text), Digit) >= 1
    /\ AfterExponent(AfterDigits(AfterDot(AfterDigits(AfterSign(text))))) \in {"", "\n"}

(***************************************************************************)
(* Numbers from text                                                       *)
(***************************************************************************)
\* the float of an integer part ip and a fraction fr, both digit strings
FloatOfDigits(neg, ip, fr) ==
    IF Len(ip) <= SmallDigits /\ Len(fr) <= 3
    THEN FloatV((IF neg THEN -1 ELSE 1)
                  * (StrToNat(ip) * Scale + StrToNat(Take(fr \o "000", 3))))
    ELSE Unmodelled

\* body is the text after its sign
FloatOfBody(neg, body) ==
    IF /\ Span(body, Digit) >= 1
       /\ AfterDigits(AfterDot(AfterDigits(body))) = ""
    THEN FloatOfDigits(neg, StripZeros(Take(body, Span(body, Digit))),
                       rstripZeros(AfterDot(AfterDigits(body))))
    ELSE Unmodelled

FloatOfStripped(t) == FloatOfBody(startswith(t, "-"), AfterSign(t))

\* float(text) of Python for sign, digits and an optional fraction; a
\* numeric text outside this range (more digits, an exponent) is Unmodelled
StrToFloat(text) == FloatOfStripped(strip(text))

(***************************************************************************)
(* repr(str) and the string literals eval reads back                       *)
(***************************************************************************)
RECURSIVE EscapeStr(_, _)
EscapeStr(s, q) ==
    IF s = "" THEN ""
    ELSE LET c == Ch(s, 1)
             e == CASE c = "\\" -> "\\\\"
                    [] c = q -> "\\" \o q
                    [] c = "\n" -> "\\n"
                    [] c = "\t" -> "\\t"
                    [] c = "\r" -> "\\r"
                    [] OTHER -> c
         IN e \o EscapeStr(Drop(s, 1), q)

\* repr of a str: double quotes only when the text holds ' and no "
PyRepr(s) ==
    IF Contains(s, "'") /\ ~Contains(s, "\"")
    THEN "\"" \o EscapeStr(s, "\"") \o "\""
    ELSE "'" \o EscapeStr(s, "'") \o "'"

\* the index of the quote q that closes a literal whose body starts at k, 0 if none
\* the least index at or after k of a character of s in cs, 0 if none
FirstIn(s, k, cs) ==
    IF \E j \in k..Len(s) : Ch(s, j) \in cs
    THEN Min({j \in k..Len(s) : Ch(s, j) \in cs})
    ELSE 0

RECURSIVE ClosingQuote(_, _, _)
ClosingFrom(s, m, q) ==
    IF m = 0 THEN 0
    ELSE IF Ch(s, m) = q THEN m
    \* a backslash escapes the character after it
    ELSE ClosingQuote(s, m + 2, q)

ClosingQuote(s, k, q) == ClosingFrom(s, FirstIn(s, k, {q, "\\"}), q)

RECURSIVE UnescapeStr(_)
UnescapeStr(s) ==
    IF s = "" THEN ""
    ELSE IF Ch(s, 1) = "\\" /\ Len(s) >= 2
    THEN LET c == Ch(s, 2)
             u == CASE c = "n" -> "\n"
                    [] c = "t" -> "\t"
                    [] c = "r" -> "\r"
                    [] c \in {"\\", "'", "\""} -> c
                    [] OTHER -> "\\" \o c
         IN u \o UnescapeStr(Drop(s, 2))
    ELSE Ch(s, 1) \o UnescapeStr(Drop(s, 1))

(***************************************************************************)
(* eval(text, env).  The modelled grammar:                                 *)
(*     expr ::= atom | atom cmp atom      cmp ::= < > <= >= == !=           *)
(*     atom ::= [-] digits | [-] digits . [digits] | 'text' | "text" | name *)
(*            | name ( [atom {, atom}] )                                     *)
(* The result is [ok, v]: ok = FALSE when eval raises (SyntaxError,        *)
(* NameError, TypeError); v = Unmodelled for a text outside the grammar.   *)
(***************************************************************************)
Raised == [ok |-> FALSE, v |-> Unmodelled]
Result(v) == [ok |-> TRUE, v |-> v]

\* the names of build_safe_eval_env; "__builtins__" is {} so nothing else resolves
EnvFunctions == {"abs", "min", "max", "int", "float", "round", "len",
                 "hr_bytime", "hr_bytes", "hr_num", "pretty_uptime", "substr"}
build_safe_eval_env(extra_vars) ==
    [name \in EnvFunctions \cup DOMAIN extra_vars |->
        IF name \in DOMAIN extra_vars THEN extra_vars[name] ELSE FuncV(name)]

\* keywords of Python: never names, and values or syntax of their own
Keywords == {"True", "False", "None", "and", "or", "not", "is", "in", "if", "else",
             "lambda", "for", "while", "def", "class", "return", "import", "from",
             "as", "with", "try", "except", "finally", "raise", "pass", "del",
             "global", "nonlocal", "assert", "break", "continue", "yield",
             "async", "await", "elif"}

\* an integer literal of digits ip, leading zeros stripped
IntOfDigits(ip) ==
    IF Len(ip) <= SmallDigits THEN IntV(StrToNat(ip)) ELSE BigV(1, ip)

\* an unsigned number literal
EvalNumber(s) ==
    IF Span(s, Digit) = Len(s)
    THEN \* an integer literal: no leading zero unless it is all zeros
         IF Len(s) > 1 /\ Ch(s, 1) = "0" /\ Span(s, {"0"}) < Len(s) THEN Raised
         ELSE Result(IntOfDigits(StripZeros(s)))
    ELSE IF AfterDigits(AfterDot(AfterDigits(s))) = "" /\ Contains(s, ".")
    THEN Result(StrToFloat(s))
    ELSE Result(Unmodelled)

NegateValue(v) ==
    IF v.t = "unmodelled" THEN v
    ELSE IF IsBig(v) THEN BigV(-v.n, v.d)
    ELSE [v EXCEPT !.n = -v.n]

Negate(r) == IF r.ok THEN Result(NegateValue(r.v)) ELSE r

\* a quoted literal s whose closing quote is at index close (0: none)
EvalQuoted(s, close) ==
    IF close = 0 THEN Raised
    ELSE IF close = Len(s) /\ ~(Len(s) >= 3 /\ Ch(s, 2) = Ch(s, 1))
    THEN Result(StrV(UnescapeStr(SubSeq(s, 2, Len(s) - 1))))
    ELSE Result(Unmodelled)

\* the index of the first character of s in cs, at or after k, outside a
\* string literal; 0 if none
RECURSIVE FirstOutside(_, _, _)
AfterLiteral(s, close, cs) == IF close = 0 THEN 0 ELSE FirstOutside(s, close + 1, cs)

FirstOutsideFrom(s, m, cs) ==
    IF m = 0 THEN 0
    ELSE IF Ch(s, m) \in cs THEN m
    ELSE AfterLiteral(s, ClosingQuote(s, m + 1, Ch(s, m)), cs)

FirstOutside(s, k, cs) == FirstOutsideFrom(s, FirstIn(s, k, cs \cup {"'", "\""}), cs)

(***************************************************************************)
(* Calls.  A call is name(arg, ..., arg) with atoms as arguments; of the   *)
(* functions of the environment, substr is modelled.                       *)
(***************************************************************************)
\* None, the default of substr's length
NoneV == [t |-> "none", n |-> 0, d |-> ""]

\* a slice bound k of a text of n characters, as Python adjusts it
SliceIndex(k, n) == IF k < 0 THEN (IF k + n < 0 THEN 0 ELSE k + n)
                    ELSE (IF k > n THEN n ELSE k)

\* text[a:b]
PySlice(text, a, b) ==
    SubSeq(text, SliceIndex(a, Len(text)) + 1, SliceIndex(b, Len(text)))

\* a value a slice takes as a bound (int or bool), small enough for the model
IsIndex(v) == v.t \in {"int", "bool"} /\ ~IsBig(v)

\* lines 277-282; a bound that is a str or a float raises TypeError
substr(s, start, length) ==
    IF \/ s.t \notin {"str", "int", "float", "bool"}
       \/ start.t \notin {"str", "int", "float", "bool"} \/ IsBig(start)
       \/ length.t \notin {"str", "int", "float", "bool", "none"} \/ IsBig(length)
    THEN Result(Unmodelled)
    ELSE IF length = NoneV
    THEN IF IsIndex(start)
         THEN Result(StrV(PySlice(PyStr(s), start.n, Len(PyStr(s)))))
         ELSE Raised
    ELSE IF IsIndex(start) /\ IsIndex(length)
    THEN Result(StrV(PySlice(PyStr(s), start.n, start.n + length.n)))
    ELSE Raised

\* the arguments of a call: the text between the brackets cut at the commas
\* outside string literals
RECURSIVE SplitArgs(_)
SplitArgs(s) ==
    LET k == FirstOutside(s, 1, {","})
    IN IF k = 0 THEN <<s>> ELSE <<Take(s, k - 1)>> \o SplitArgs(Drop(s, k))

\* f(*args) for the values args
Apply(f, args) ==
    IF f.t = "unmodelled" THEN Result(Unmodelled)
    \* TypeError: not callable
    ELSE IF f.t # "func" THEN Raised
    ELSE IF f.d # "substr" THEN Result(Unmodelled)
    ELSE IF Len(args) = 2 THEN substr(args[1], args[2], NoneV)
    ELSE IF Len(args) = 3 THEN substr(args[1], args[2], args[3])
    \* TypeError: missing or too many arguments
    ELSE Raised

\* rs are the results of the arguments
ApplyResults(f, rs) ==
    IF \E k \in 1..Len(rs) : rs[k].ok /\ rs[k].v.t = "unmodelled" THEN Result(Unmodelled)
    ELSE IF \E k \in 1..Len(rs) : ~rs[k].ok THEN Raised
    ELSE Apply(f, [k \in 1..Len(rs) |-> rs[k].v])

RECURSIVE EvalStripped(_, _)
\* name(inside): brackets or operators inside are outside the grammar
CallOf(name, inside, env) ==
    IF name \in Keywords THEN Result(Unmodelled)
    ELSE IF FirstOutside(inside, 1, {"(", ")", "[", "]", "{", "}", "=", "*", ":"}) # 0
    THEN Result(Unmodelled)
    \* NameError
    ELSE IF name \notin DOMAIN env THEN Raised
    ELSE IF strip(inside) = "" THEN Apply(env[name], <<>>)
    ELSE IF \E k \in 1..Len(SplitArgs(inside)) : strip(SplitArgs(inside)[k]) = ""
    THEN Result(Unmodelled)
    ELSE ApplyResults(env[name],
            [k \in 1..Len(SplitArgs(inside)) |->
                EvalStripped(strip(SplitArgs(inside)[k]), env)])

\* s starts with an identifier that other characters follow
EvalCall(s, env) ==
    IF /\ Ch(s, 1) \in IdentStart
       /\ Ch(s, Span(s, WordChar) + 1) = "("
       /\ Ch(s, Len(s)) = ")"
    THEN CallOf(Take(s, Span(s, WordChar)),
                SubSeq(s, Span(s, WordChar) + 2, Len(s) - 1), env)
    ELSE Result(Unmodelled)

EvalStripped(s, env) ==
    IF s = "" THEN Raised
    \* a comment: outside the grammar
    ELSE IF Contains(s, "#") THEN Result(Unmodelled)
    \* no expression ends with a binary operator or an opening bracket
    ELSE IF Ch(s, Len(s)) \in {"+", "-", "*", "/", "%", "(", "[", ",", "="} THEN Raised
    ELSE IF Ch(s, 1) \in Digit THEN EvalNumber(s)
    ELSE IF Len(s) >= 2 /\ Ch(s, 1) = "-" /\ Ch(s, 2) \in Digit
    THEN Negate(EvalNumber(Drop(s, 1)))
    ELSE IF Ch(s, 1) \in {"'", "\""} THEN EvalQuoted(s, ClosingQuote(s, 2, Ch(s, 1)))
    ELSE IF Ch(s, 1) \in IdentStart /\ Span(s, WordChar) = Len(s)
    THEN IF s \in Keywords THEN Result(Unmodelled)
         ELSE IF s \in DOMAIN env THEN Result(env[s])
         ELSE Raised
    ELSE EvalCall(s, env)

EvalAtom(text, env) == EvalStripped(strip(text), env)

\* digit strings of the same length, compared as numbers
RECURSIVE DigitsLess(_, _)
DigitsLess(a, b) ==
    IF a = "" THEN FALSE
    ELSE IF Ch(a, 1) # Ch(b, 1) THEN DigitVal(Ch(a, 1)) < DigitVal(Ch(b, 1))
    ELSE DigitsLess(Drop(a, 1), Drop(b, 1))

MagLess(a, b) == Len(a) < Len(b) \/ (Len(a) = Len(b) /\ DigitsLess(a, b))

\* a number that is not big, in thousandths
Milli(v) == IF v.t = "float" THEN v.n ELSE v.n * Scale

NumLess(a, b) ==
    CASE ~IsBig(a) /\ ~IsBig(b) -> Milli(a) < Milli(b)
      [] IsBig(a) /\ ~IsBig(b) -> a.n < 0
      [] ~IsBig(a) /\ IsBig(b) -> b.n > 0
      [] OTHER -> IF a.n # b.n THEN a.n < b.n
                  ELSE IF a.n > 0 THEN MagLess(a.d, b.d) ELSE MagLess(b.d, a.d)

NumEq(a, b) ==
    IF IsBig(a) \/ IsBig(b) THEN IsBig(a) /\ IsBig(b) /\ a.n = b.n /\ a.d = b.d
    ELSE Milli(a) = Milli(b)

CmpOps == {"<", ">", "<=", ">=", "==", "!="}

\* a op b of Python for numbers and strings
Compare(a, op, b) ==
    IF a.t \in {"unmodelled", "func"} \/ b.t \in {"unmodelled", "func"}
    THEN Result(Unmodelled)
    ELSE IF IsNumber(a) /\ IsNumber(b)
    THEN Result(BoolV(CASE op = "<" -> NumLess(a, b)
                        [] op = ">" -> NumLess(b, a)
                        [] op = "<=" -> ~NumLess(b, a)
                        [] op = ">=" -> ~NumLess(a, b)
                        [] op = "==" -> NumEq(a, b)
                        [] OTHER -> ~NumEq(a, b)))
    ELSE IF op = "==" THEN Result(BoolV(a = b))
    ELSE IF op = "!=" THEN Result(BoolV(a # b))
    \* ordering a str against a number raises TypeError; of two strs it is
    \* by code point, which the model does not order
    ELSE IF a.t = "str" /\ b.t = "str" THEN Result(Unmodelled)
    ELSE Raised

CmpChars == {"<", ">", "=", "!"}

\* a and b are the results of the operands
CompareResults(a, op, b) == IF ~a.ok \/ ~b.ok THEN Raised ELSE Compare(a.v, op, b.v)

EvalComparison(lhs, op, rhs, env) ==
    \* a lone = or ! is no operator of an expression
    IF op \notin CmpOps THEN Raised
    ELSE IF strip(lhs) = "" \/ strip(rhs) = "" THEN Raised
    ELSE IF FirstOutside(rhs, 1, CmpChars) # 0 THEN Result(Unmodelled)
    ELSE CompareResults(EvalAtom(lhs, env), op, EvalAtom(rhs, env))

\* the operator that starts at index k of text
OperatorAt(text, k) ==
    IF k < Len(text) /\ SubSeq(text, k, k + 1) \in CmpOps
    THEN SubSeq(text, k, k + 1)
    ELSE Ch(text, k)

SplitAt(text, k, op, env) ==
    EvalComparison(Take(text, k - 1), op, Drop(text, k + Len(op) - 1), env)

\* k is the index of the first comparison character of text, 0 if none
EvalAt(text, k, env) ==
    IF k = 0 THEN EvalAtom(text, env)
    ELSE SplitAt(text, k, OperatorAt(text, k), env)

PyEval(text, env) == EvalAt(text, FirstOutside(text, 1, CmpChars), env)

\* bool(value)
PyBool(v) ==
    CASE v.t = "str" -> v.d # ""
      [] v.t \in {"int", "float", "bool"} -> IsBig(v) \/ v.n # 0
      [] OTHER -> TRUE

(***************************************************************************)
(* round2_if_numeric                                                       *)
(***************************************************************************)
\* a double holds no integer of more than MaxFloatDigits decimal digits
MaxFloatDigits == 309

\* float(value) of a number; raises OverflowError for an integer out of range
ToFloat(v) ==
    IF IsBig(v)
    THEN IF Len(v.d) > MaxFloatDigits THEN Raised ELSE Result(Unmodelled)
    ELSE Result(FloatV(Milli(v)))

\* float(f"{x:.2f}"): x rounded to hundredths.  A decimal tie depends on the
\* binary expansion of x and a negative zero prints its sign: both Unmodelled
Abs(k) == IF k < 0 THEN -k ELSE k

Round2(x) ==
    IF x.t # "float" THEN Unmodelled
    ELSE IF Abs(x.n) % 10 = 5 \/ (x.n < 0 /\ Abs(x.n) < 5) THEN Unmodelled
    ELSE FloatV((IF x.n < 0 THEN -1 ELSE 1) * ((Abs(x.n) + 5) \div 10) * 10)

Round2Result(f) == IF f.ok THEN Result(Round2(f.v)) ELSE Raised

\* round2_if_numeric without its first branch: a number is returned as it is
round2_of_strings_only(val, expr_text) ==
    IF /\ val.t = "str"
       /\ ~Contains(lower(expr_text), "version")
       /\ is_numeric_string(val.d)
    THEN Result(Round2(StrToFloat(val.d)))
    ELSE Result(val)

round2_if_numeric(val, expr_text) ==
    IF IsNumber(val) THEN Round2Result(ToFloat(val))
    ELSE IF /\ val.t = "str"
            /\ ~Contains(lower(expr_text), "version")
            /\ is_numeric_string(val.d)
    THEN Result(Round2(StrToFloat(val.d)))
    ELSE Result(val)

(***************************************************************************)
(* substitute_expr_variables: re.sub replaces every identifier standing     *)
(* between word boundaries (an identifier start, then word characters) by  *)
(* repl of it                                                              *)
(***************************************************************************)
Literal(val) ==
    IF IsNumber(val) THEN PyStr(val)
    ELSE IF val.t = "str" /\ is_numeric_string(val.d) THEN val.d
    ELSE PyRepr(val.d)

repl(word, table) ==
    IF word \in DOMAIN table THEN Literal(table[word]) ELSE word

\* the indices of s, at or after k, where an identifier starts after a word boundary
TokenStarts(s, k) ==
    {j \in k..Len(s) : Ch(s, j) \in IdentStart /\ (j = 1 \/ Ch(s, j - 1) \notin WordChar)}

\* the text from index k on, with every identifier that stands between word
\* boundaries replaced; b is the start of the next one and n its length
RECURSIVE SubstituteFrom(_, _, _)
SubstituteToken(s, k, b, n, table) ==
    SubSeq(s, k, b - 1) \o repl(SubSeq(s, b, b + n - 1), table)
        \o SubstituteFrom(s, b + n, table)

SubstituteAt(s, k, b, table) ==
    SubstituteToken(s, k, b, Span(Drop(s, b - 1), WordChar), table)

SubstituteFrom(s, k, table) ==
    IF TokenStarts(s, k) = {} THEN SubSeq(s, k, Len(s))
    ELSE SubstituteAt(s, k, Min(TokenStarts(s, k)), table)

substitute_expr_variables(expr, table) == SubstituteFrom(expr, 1, table)

(***************************************************************************)
(* build_condition_expression                                              *)
(***************************************************************************)
\* the match of what follows =~ or !~ : whitespace, /, a lazy non-empty
\* pattern, /, letters to the end.  [ok, pattern, flags]; the lazy group
\* ends at the first / that only letters follow
PatternEnds(body) ==
    {j \in 3..Len(body) :
        /\ Ch(body, j) = "/"
        /\ Span(Drop(body, j), Letter) = Len(body) - j
        /\ ~Contains(SubSeq(body, 2, j - 1), "\n")}

NoOperand == [ok |-> FALSE, pattern |-> "", flags |-> ""]

OperandAt(body, j) == [ok |-> TRUE, pattern |-> SubSeq(body, 2, j - 1), flags |-> Drop(body, j)]

OperandOf(body) ==
    IF startswith(body, "/") /\ PatternEnds(body) # {}
    THEN OperandAt(body, Min(PatternEnds(body)))
    ELSE NoOperand

RegexOperand(after) == OperandOf(lstrip(after))

flags_expr(flags) == IF flags # "" /\ Contains(lower(flags), "i") THEN "re.I" ELSE "0"

SearchExpression(m, value_alias, test) ==
    "re.search(r'" \o m.pattern \o "', str(" \o value_alias \o "), "
        \o flags_expr(m.flags) \o ") " \o test

\* text is the stripped condition, m the match of its regex operand
ConditionFrom(text, value_alias, m) ==
    IF startswith(text, "=~") /\ m.ok THEN SearchExpression(m, value_alias, "is not None")
    ELSE IF startswith(text, "!~") /\ m.ok THEN SearchExpression(m, value_alias, "is None")
    ELSE IF startswith(text, "eq ") THEN value_alias \o " == " \o strip(Drop(text, 3))
    ELSE IF startswith(text, "ne ") THEN value_alias \o " != " \o strip(Drop(text, 3))
    ELSE IF startswith(text, ".") THEN "str(" \o value_alias \o ")" \o text
    ELSE IF text # "" /\ Ch(text, 1) \in {"<", ">", "!", "="}
    THEN value_alias \o " " \o text
    ELSE text

ConditionOfStripped(text, value_alias) ==
    ConditionFrom(text, value_alias, RegexOperand(Drop(text, 2)))

build_condition_expression(comp_text, value_alias) ==
    ConditionOfStripped(strip(comp_text), value_alias)

(***************************************************************************)
(* parse_config_line                                                       *)
(***************************************************************************)
Delimiter == "|||"

\* [ok = FALSE] stands for the ValueError of a line that has not four fields
NoRule == [ok |-> FALSE, label |-> "", comp |-> "", expr |-> "", output |-> ""]

RuleOfParts(parts) ==
    IF Len(parts) # 4 THEN NoRule
    ELSE [ok |-> TRUE, label |-> strip(parts[1]), comp |-> strip(parts[2]),
          expr |-> strip(parts[3]), output |-> strip(parts[4])]

parse_config_line(line) == RuleOfParts(split(line, Delimiter))

(***************************************************************************)
(* The category header: re.match of ^\s*#\s*Category\s*:\s*(.+?)\s*$ on    *)
(* raw, re.IGNORECASE.  The value is group 1, or the empty string when raw *)
(* does not match.                                                         *)
(***************************************************************************)
LastNonNewline(s) ==
    IF \A k \in 1..Len(s) : Ch(s, k) = "\n" THEN ""
    ELSE Ch(s, Max({k \in 1..Len(s) : Ch(s, k) # "\n"}))

\* rest is what follows the colon
CategoryGroup(rest) ==
    IF strip(rest) # ""
    THEN \* . matches no newline
         IF Contains(strip(rest), "\n") THEN "" ELSE strip(rest)
    \* only whitespace follows the colon: \s* gives back its last character
    \* that . can match
    ELSE LastNonNewline(rest)

AfterColon(s) == IF startswith(s, ":") THEN CategoryGroup(Drop(s, 1)) ELSE ""

AfterKeyword(s) ==
    IF Len(s) >= 8 /\ lower(Take(s, 8)) = "category"
    THEN AfterColon(lstrip(Drop(s, 8)))
    ELSE ""

AfterMarker(s) == IF startswith(s, "#") THEN AfterKeyword(lstrip(Drop(s, 1))) ELSE ""

CategoryOf(line) == AfterMarker(lstrip(line))

(***************************************************************************)
(* The steps of evaluate_and_print on one line                             *)
(***************************************************************************)
IsBlank(line) == strip(line) = ""
IsComment(line) == ~IsBlank(line) /\ startswith(lstrip(line), "#")
IsRuleLine(line) == ~IsBlank(line) /\ ~IsComment(line) /\ parse_config_line(line).ok

\* DerivedOf with an empty string as the fallback
DerivedOrEmpty(r, parsed_expr) == IF r.ok THEN r.v ELSE StrV("")

\* lines 433-437: the derived value, or the substituted text when eval raises
DerivedOf(r, parsed_expr) == IF r.ok THEN r.v ELSE StrV(parsed_expr)

DerivedValue(parsed_expr) ==
    DerivedOf(PyEval(parsed_expr, build_safe_eval_env(<<>>)), parsed_expr)

\* line 434: eval of the substituted text returns
Evaluates(parsed_expr) == PyEval(parsed_expr, build_safe_eval_env(<<>>)).ok

\* lines 442-447: [ok, text]; ok = FALSE when formatting raises
PrettyLine(label, d) ==
    IF d.ok THEN [ok |-> TRUE, text |-> label \o ": " \o PyStr(d.v)]
    ELSE [ok |-> FALSE, text |-> ""]

\* MetricLine with the csv line formatted through round2_if_numeric too
MetricLineAlwaysRounded(mode, label, val, expr) ==
    IF round2_if_numeric(val, expr).ok
    THEN [ok |-> TRUE,
          text |-> label \o (IF mode = "csv" THEN "," ELSE ": ")
                         \o PyStr(round2_if_numeric(val, expr).v)]
    ELSE [ok |-> FALSE, text |-> ""]

MetricLine(mode, label, val, expr) ==
    IF mode = "csv" THEN [ok |-> TRUE, text |-> label \o "," \o PyStr(val)]
    ELSE PrettyLine(label, round2_if_numeric(val, expr))

\* lines 450-462: bool of the evaluated condition, False when eval raises
ConditionResult(c) == c.ok /\ PyBool(c.v)

ConditionEnv(val) ==
    build_safe_eval_env(("re" :> FuncV("re")) @@ ("v" :> val) @@ ("_" :> val))

ConditionOfText(comp_text, val) ==
    IF comp_text # ""
    THEN ConditionResult(PyEval(build_condition_expression(comp_text, "v"),
                                ConditionEnv(val)))
    ELSE FALSE

ConditionOk(comp, val) == ConditionOfText(strip(comp), val)

\* lines 421-462 for a line that parses as rule r; condition_ok is what lines
\* 449-462 compute once the metric line is printed
Displayed(r, parsed_expr, val, mode) ==
    [rule |-> r, parsed_expr |-> parsed_expr, evaluated |-> Evaluates(parsed_expr),
     value |-> val, metric |-> MetricLine(mode, r.label, val, r.expr),
     condition_ok |-> ConditionOk(r.comp, val)]

EvaluateParsed(r, parsed_expr, mode) ==
    Displayed(r, parsed_expr, DerivedValue(parsed_expr), mode)

EvaluateRule(r, table, mode) ==
    EvaluateParsed(r, substitute_expr_variables(r.expr, table), mode)

Evaluate(line, table, mode) == EvaluateRule(parse_config_line(line), table, mode)

(***************************************************************************)
(* The inputs of a run                                                     *)
(***************************************************************************)
\* at most MaxLines lines in the rule file
MaxLines == 2

\* s repeated n times, by halving n
RECURSIVE RepeatStr(_, _)
RepeatStr(s, n) ==
    IF n = 0 THEN ""
    ELSE LET h == RepeatStr(s, n \div 2)
         IN IF n % 2 = 0 THEN h \o h ELSE h \o h \o s

\* an integer literal no double can hold: 1 followed by MaxFloatDigits zeros
HugeInteger == "1" \o RepeatStr("0", MaxFloatDigits)

\* the metric table of a server (get_mysql_kv_from_files gives every value as a str)
ServerTable ==
    [Threads_connected |-> StrV("12"),
     Uptime |-> StrV("30"),
     Connections |-> StrV("150"),
     Slow_queries |-> StrV("50"),
     Key_ratio |-> StrV("100.004"),
     version |-> StrV("5.7.31"),
     innodb_version |-> StrV("5.70"),
     protocol_version |-> StrV("10"),
     version_short |-> StrV("8.0"),
     Zerofill |-> StrV("012"),
     log_bin |-> StrV("ON")]

Tables ==
    {ServerTable,
     [Threads_connected |-> StrV("12")],
     [Uptime |-> StrV("30")]}

BlankLines == {"  \n"}

CommentLines ==
    {"# Category: Memory\n",
     "#category :  Memory  \n",
     "# CATEGORY: Threads\n",
     "# thresholds below\n",
     "# Category:\n",
     "# Category: Memory ||| > 1 ||| Uptime ||| disabled\n"}

MalformedLines ==
    {"Uptime ||| < 60 ||| Uptime\n",
     "Uptime ||| < 60 ||| Uptime ||| low ||| extra\n"}

RuleLines ==
    {"Active Threads ||| ||| Threads_connected ||| (none)",
     "Uptime too low ||| < 60 ||| Uptime ||| Consider increasing uptime",
     "Version ||| ||| version ||| (none)\n",
     "InnoDB ||| ||| innodb_version ||| (none)\n",
     "Protocol ||| ||| protocol_version ||| (none)\n",
     "Short ||| ||| version_short ||| (none)\n",
     "Zerofill ||| ||| Zerofill ||| (none)\n",
     "Unknown ||| > 1 ||| Not_a_variable ||| never\n",
     "Broken ||| > ||| Uptime + ||| never\n",
     "Empty ||| > 1 ||| ||| never\n",
     "Connections ||| > 100 ||| Connections ||| Too many connections\n",
     "Slow ||| > 100 ||| Slow_queries ||| Too many slow queries\n",
     "Slow le ||| <= 50 ||| Slow_queries ||| le\n",
     "Conn ge ||| >= 150.5 ||| Connections ||| ge\n",
     "Conn eq ||| == 150 ||| Connections ||| eq\n",
     "Conn ne ||| != 150 ||| Connections ||| ne\n",
     "Key ratio ||| > 100 ||| Key_ratio ||| Ratio over 100\n",
     "Binlog order ||| > 1 ||| log_bin ||| never\n",
     "Huge ||| > 100 ||| " \o HugeInteger \o " ||| Huge value\n",
     "Huge idle ||| ||| " \o HugeInteger \o " ||| (none)\n"}

Library == BlankLines \cup CommentLines \cup MalformedLines \cup RuleLines

\* rules whose expression calls substr on a variable, with literal bounds
SubstrSubjects == {"version", "Uptime"}
SubstrStarts == {-2, 0, 1, 3}
SubstrLengths == {-1, 0, 2, 9}

\* has_length = FALSE: the call leaves length out
SubstrCalls ==
    [subject : SubstrSubjects, start : SubstrStarts, has_length : {FALSE}, length : {0}]
        \cup [subject : SubstrSubjects, start : SubstrStarts,
               has_length : {TRUE}, length : SubstrLengths]

SubstrExpr(c) ==
    "substr(" \o c.subject \o ", " \o IntToStr(c.start)
        \o (IF c.has_length THEN ", " \o IntToStr(c.length) ELSE "") \o ")"

SubstrRule(c) == "Part ||| ||| " \o SubstrExpr(c) \o " ||| (none)\n"

\* a rule file of substr rules among lines of the other kinds
SubstrLibrary ==
    {SubstrRule(c) : c \in SubstrCalls}
        \cup {"  \n",
               "# Category: Memory\n",
               "# thresholds below\n",
               "# Category: Memory ||| > 1 ||| Uptime ||| disabled\n",
               "Uptime ||| < 60 ||| Uptime\n",
               "Uptime too low ||| < 60 ||| Uptime ||| Consider increasing uptime",
               "Huge idle ||| ||| " \o HugeInteger \o " ||| (none)\n"}

(***************************************************************************)
(* The per-line results above, computed once for every input of the model  *)
(***************************************************************************)
Modes == {"pretty", "csv"}

Classify(line) ==
    [line |-> line, blank |-> IsBlank(line), comment |-> IsComment(line),
     delimiter |-> Contains(line, Delimiter), category |-> CategoryOf(line),
     is_rule |-> IsRuleLine(line)]

Classified == {Classify(line) : line \in Library \cup SubstrLibrary}

\* Classify(line)
Line(line) == CHOOSE c \in Classified : c.line = line

Evaluated ==
    {[line |-> x[1], table |-> x[2], mode |-> x[3], e |-> Evaluate(x[1], x[2], x[3])] :
        x \in {y \in (Library \cup SubstrLibrary) \X Tables \X Modes : IsRuleLine(y[1])}}

\* Evaluate(line, table, mode)
Run(line, table, mode) ==
    (CHOOSE r \in Evaluated : r.line = line /\ r.table = table /\ r.mode = mode).e

(***************************************************************************)
(* evaluate_and_print                                                      *)
(*                                                                         *)
(* One run of evaluate_and_print(lines, variables, output_mode,            *)
(* debug = False, show_recommendations).  out is the sequence of print     *)
(* calls, each [kind, text] with text the string printed; kind records     *)
(* which print statement made the call.  pc is the position in the         *)
(* function: "loop" at the head of the for loop (i the index of the next   *)
(* line), "condition" at the condition of the rule just displayed, "done"  *)
(* after the return, "aborted" after an exception left the function.       *)
(***************************************************************************)

vars == <<lines, variables, output_mode, show_recommendations,
          i, pc, current_category, recommendation_pairs,
          rule, value, displayed_metric_line, out>>

inputs == <<lines, variables, output_mode, show_recommendations>>

\* the escape sequences ESC[1m and ESC[0m, ESC written as \033
ANSI_BOLD == "\\033[1m"
ANSI_RESET == "\\033[0m"

Emit(kind, text) == [kind |-> kind, text |-> text]

\* the line the loop is at
raw == lines[i]

AtLine == pc = "loop" /\ i <= Len(lines)

\* line 402: a blank line
SkipBlank ==
    /\ AtLine /\ Line(raw).blank
    /\ i' = i + 1
    /\ UNCHANGED <<inputs, pc, current_category, recommendation_pairs,
                   rule, value, displayed_metric_line, out>>

\* lines 411-416
\* ChangeCategory without the comparison with the active category
ChangeCategoryAlways(category_text) ==
    /\ category_text # ""
    /\ current_category' = category_text
    /\ out' = Append(out, Emit("category",
                IF output_mode = "csv" THEN "Category," \o category_text
                ELSE "\n" \o category_text))

ChangeCategory(category_text) ==
    /\ category_text # "" /\ category_text # current_category
    /\ current_category' = category_text
    /\ out' = Append(out, Emit("category",
                IF output_mode = "csv" THEN "Category," \o category_text
                ELSE "\n" \o category_text))

\* lines 405-418: a comment line that changes the category
CategoryHeader ==
    /\ AtLine /\ Line(raw).comment /\ ~Line(raw).delimiter
    /\ ChangeCategory(Line(raw).category)
    /\ i' = i + 1
    /\ UNCHANGED <<inputs, pc, recommendation_pairs, rule, value, displayed_metric_line>>

SameCategory(category_text) == category_text = "" \/ category_text = current_category

\* lines 405-418: any other comment line without the delimiter
PlainComment ==
    /\ AtLine /\ Line(raw).comment /\ ~Line(raw).delimiter
    /\ SameCategory(Line(raw).category)
    /\ i' = i + 1
    /\ UNCHANGED <<inputs, pc, current_category, recommendation_pairs,
                   rule, value, displayed_metric_line, out>>

\* lines 419-420: a commented-out rule
DisabledRule ==
    /\ AtLine /\ Line(raw).comment /\ Line(raw).delimiter
    /\ i' = i + 1
    /\ UNCHANGED <<inputs, pc, current_category, recommendation_pairs,
                   rule, value, displayed_metric_line, out>>

\* lines 421-425: parse_config_line raises, the line is skipped
MalformedLine ==
    /\ AtLine /\ ~Line(raw).blank /\ ~Line(raw).comment /\ ~Line(raw).is_rule
    /\ i' = i + 1
    /\ UNCHANGED <<inputs, pc, current_category, recommendation_pairs,
                   rule, value, displayed_metric_line, out>>

ShowMetric(e) ==
    /\ e.metric.ok
    /\ rule' = e.rule
    /\ value' = e.value
    /\ displayed_metric_line' = e.metric.text
    /\ out' = Append(out, Emit("metric", e.metric.text))

\* lines 421-447: a rule is parsed, evaluated and displayed
DisplayRule ==
    /\ AtLine /\ Line(raw).is_rule
    /\ ShowMetric(Run(raw, variables, output_mode))
    /\ pc' = "condition"
    /\ UNCHANGED <<inputs, i, current_category, recommendation_pairs>>

Raise(e) ==
    /\ ~e.metric.ok
    /\ rule' = e.rule
    /\ value' = e.value

\* line 446: round2_if_numeric raises OverflowError, which nothing catches
AbortRule ==
    /\ AtLine /\ Line(raw).is_rule
    /\ Raise(Run(raw, variables, output_mode))
    /\ pc' = "aborted"
    /\ UNCHANGED <<inputs, i, current_category, recommendation_pairs,
                   displayed_metric_line, out>>

\* CheckCondition with the new pair put in front of the list
CheckConditionPrepending ==
    /\ pc = "condition"
    /\ recommendation_pairs' =
            IF ConditionOk(rule.comp, value)
            THEN <<(<<displayed_metric_line, rule.output>>)>> \o recommendation_pairs
            ELSE recommendation_pairs
    /\ i' = i + 1
    /\ pc' = "loop"
    /\ UNCHANGED <<inputs, current_category, rule, value, displayed_metric_line, out>>

\* lines 449-467: the condition of the displayed rule
CheckCondition ==
    /\ pc = "condition"
    /\ recommendation_pairs' =
            IF ConditionOk(rule.comp, value)
            THEN Append(recommendation_pairs, <<displayed_metric_line, rule.output>>)
            ELSE recommendation_pairs
    /\ i' = i + 1
    /\ pc' = "loop"
    /\ UNCHANGED <<inputs, current_category, rule, value, displayed_metric_line, out>>

\* the print calls of lines 471-483 for the pairs
RECURSIVE RecommendationEvents(_, _)
RecommendationEvents(mode, pairs) ==
    IF pairs = <<>> THEN <<>>
    ELSE (IF mode = "csv"
          THEN <<Emit("rec_metric", pairs[1][1]),
                 Emit("rec_text", "Recommendation," \o pairs[1][2])>>
          ELSE <<Emit("rec_metric", ANSI_BOLD \o pairs[1][1] \o ANSI_RESET),
                 Emit("rec_text", pairs[1][2]),
                 Emit("rec_blank", "")>>)
         \o RecommendationEvents(mode, Tail(pairs))

\* lines 469-483: the recommendation section
Recommendations ==
    /\ pc = "loop" /\ i > Len(lines)
    /\ show_recommendations /\ recommendation_pairs # <<>>
    /\ out' = out \o <<Emit("header", "\n\nRECOMMENDATIONS:")>>
                  \o RecommendationEvents(output_mode, recommendation_pairs)
    /\ pc' = "done"
    /\ UNCHANGED <<inputs, i, current_category, recommendation_pairs,
                   rule, value, displayed_metric_line>>

\* line 469: no section
Return ==
    /\ pc = "loop" /\ i > Len(lines)
    /\ ~(show_recommendations /\ recommendation_pairs # <<>>)
    /\ pc' = "done"
    /\ UNCHANGED <<inputs, i, current_category, recommendation_pairs,
                   rule, value, displayed_metric_line, out>>

Next ==
    \/ SkipBlank
    \/ CategoryHeader
    \/ PlainComment
    \/ DisabledRule
    \/ MalformedLine
    \/ DisplayRule
    \/ AbortRule
    \/ CheckCondition
    \/ Recommendations
    \/ Return

Init ==
    /\ lines \in UNION {[1..n -> Library] : n \in 0..MaxLines}
    /\ variables \in Tables
    /\ output_mode \in Modes
    /\ show_recommendations \in BOOLEAN
    /\ i = 1
    /\ pc = "loop"
    /\ current_category = ""
    /\ recommendation_pairs = <<>>
    /\ rule = NoRule
    /\ value = StrV("")
    /\ displayed_metric_line = ""
    /\ out = <<>>

Spec == Init /\ [][Next]_vars

\* a run on a rule file that calls substr
SubstrInit ==
    /\ lines \in UNION {[1..n -> SubstrLibrary] : n \in 0..MaxLines}
    /\ variables \in Tables
    /\ output_mode \in Modes
    /\ show_recommendations \in BOOLEAN
    /\ i = 1
    /\ pc = "loop"
    /\ current_category = ""
    /\ recommendation_pairs = <<>>
    /\ rule = NoRule
    /\ value = StrV("")
    /\ displayed_metric_line = ""
    /\ out = <<>>

SubstrSpec == SubstrInit /\ [][Next]_vars

(***************************************************************************)
(* Properties of evaluate_and_print                                        *)
(***************************************************************************)
IsMetric(e) == e.kind = "metric"
IsCategoryChange(e) == e.kind = "category"
IsHeader(e) == e.kind = "header"

\* the metric lines and the category changes printed by the main pass
Metrics == SelectSeq(out, IsMetric)
CategoryChanges == SelectSeq(out, IsCategoryChange)

\* the result of lines 421-462 on line k of the file
RuleAt(k) == Run(lines[k], variables, output_mode)

\* the non-comment lines of four fields among the first n lines
RuleLinesUpTo(n) == {k \in 1..n : Line(lines[k]).is_rule}

\* those of them whose condition evaluates true
TriggeredUpTo(n) ==
    {k \in RuleLinesUpTo(n) : RuleAt(k).condition_ok}

\* the lines the main pass is past: at "condition" line i is already displayed
Shown == IF pc = "condition" THEN i ELSE i - 1

\* C1: the main pass is never left by an exception, and at every point it has
\* printed exactly one metric line for each non-comment line of four fields
\* among the lines it is past, in file order (the j-th metric line carries the
\* label of the j-th such line), and none for any other line
C1_OneMetricLinePerRule ==
    /\ pc # "aborted"
    /\ Len(Metrics) = Cardinality(RuleLinesUpTo(Shown))
    /\ \A k \in RuleLinesUpTo(Shown) :
          startswith(Metrics[Cardinality(RuleLinesUpTo(k))].text,
                     RuleAt(k).rule.label)

\* pairs is the pairs of the rules among the first n lines whose condition is
\* true, each with the metric line printed for it (in events), in file order
PairsAre(pairs, n, events) ==
    /\ Len(pairs) = Cardinality(TriggeredUpTo(n))
    /\ \A k \in TriggeredUpTo(n) :
          pairs[Cardinality(TriggeredUpTo(k))] =
              <<SelectSeq(events, IsMetric)[Cardinality(RuleLinesUpTo(k))].text,
                RuleAt(k).rule.output>>

IsPrefix(s, t) == Len(s) <= Len(t) /\ SubSeq(t, 1, Len(s)) = s

\* C2: every step leaves the recommendation list a prefix of the new list, which
\* grows by at most one pair, and after the step the list is, in file order, the
\* pairs (printed metric line, recommendation text) of exactly the rules
\* processed so far whose condition evaluated true
C2_ListIsAppendOnly ==
    [][/\ IsPrefix(recommendation_pairs, recommendation_pairs')
       /\ Len(recommendation_pairs') <= Len(recommendation_pairs) + 1
       /\ PairsAre(recommendation_pairs', i' - 1, out')]_vars

\* two rules have triggered, the second appended after the first
C2_TwoPairs ==
    /\ Len(recommendation_pairs) = 2
    /\ recommendation_pairs[1] # recommendation_pairs[2]
    /\ RuleLinesUpTo(2) = {1, 2}

HeaderPrinted == \E h \in 1..Len(out) : IsHeader(out[h])

\* evaluate_and_print has been left, by its return or by an exception
Finished == pc \in {"done", "aborted"}

Requested == show_recommendations /\ recommendation_pairs # <<>>

\* the entries printed after the header at h are those of the list, in list order
EntriesFollow(h) ==
    IF output_mode = "csv"
    THEN /\ Len(out) = h + 2 * Len(recommendation_pairs)
         /\ \A j \in 1..Len(recommendation_pairs) :
               /\ out[h + 2 * j - 1].text = recommendation_pairs[j][1]
               /\ out[h + 2 * j].text = "Recommendation," \o recommendation_pairs[j][2]
    ELSE /\ Len(out) = h + 3 * Len(recommendation_pairs)
         /\ \A j \in 1..Len(recommendation_pairs) :
               /\ out[h + 3 * j - 2].text =
                      ANSI_BOLD \o recommendation_pairs[j][1] \o ANSI_RESET
               /\ out[h + 3 * j - 1].text = recommendation_pairs[j][2]
               /\ out[h + 3 * j].text = ""

\* C3: the recommendation section is printed only when recommendations were
\* requested, the list is non-empty and every line has been consumed; once
\* evaluate_and_print is over the section has been printed if and only if
\* recommendations were requested and the list is non-empty; the header is
\* followed by the entries in list order and by no metric line or category
\* change; without the section nothing but main-pass output is printed
C3_SectionIffRequestedAndNonEmpty ==
    /\ HeaderPrinted => Requested /\ i > Len(lines)
    /\ Finished => (HeaderPrinted <=> Requested)
    /\ \A h \in 1..Len(out) :
          IsHeader(out[h]) =>
              /\ EntriesFollow(h)
              /\ \A k \in (h + 1)..Len(out) :
                    ~IsMetric(out[k]) /\ ~IsCategoryChange(out[k])
    /\ ~HeaderPrinted =>
          \A k \in 1..Len(out) : IsMetric(out[k]) \/ IsCategoryChange(out[k])

\* the loop is at a comment line without the delimiter that matches the
\* category-header pattern and names a category other than the active one
AtNewCategory ==
    /\ pc = "loop" /\ i <= Len(lines)
    /\ Line(lines[i]).comment /\ ~Line(lines[i]).delimiter
    /\ Line(lines[i]).category # ""
    /\ Line(lines[i]).category # current_category

CategoryText(name) == IF output_mode = "csv" THEN "Category," \o name ELSE "\n" \o name

\* C4: a step changes the active category, or prints a category change, exactly
\* when it processes a comment line without the delimiter that matches the
\* category-header pattern and names a category other than the active one; the
\* step then makes that category the active one and prints one category change
\* for it
C4_CategoryChangesExactlyOnNewHeader ==
    [][/\ (\/ current_category' # current_category
           \/ SelectSeq(out', IsCategoryChange) # CategoryChanges) <=> AtNewCategory
       /\ AtNewCategory =>
             /\ current_category' = Line(lines[i]).category
             /\ out' = Append(out, Emit("category",
                                        CategoryText(Line(lines[i]).category)))]_vars

\* two different header lines naming the same category have been processed and
\* one category change has been printed
C4_SameCategoryTwice ==
    /\ pc = "loop" /\ i = 3
    /\ lines[1] # lines[2]
    /\ Line(lines[1]).comment /\ ~Line(lines[1]).delimiter
    /\ Line(lines[2]).comment /\ ~Line(lines[2]).delimiter
    /\ Line(lines[1]).category = "Memory" /\ Line(lines[2]).category = "Memory"
    /\ Len(CategoryChanges) = 1
    /\ current_category = "Memory"

\* the run is over, on one line, with these arguments
RanOn(line, table, mode, show) ==
    /\ pc = "done"
    /\ lines = <<line>> /\ variables = table
    /\ output_mode = mode /\ show_recommendations = show

\* the scenario of C5 has run
C5_ActiveThreadsRan ==
    RanOn("Active Threads ||| ||| Threads_connected ||| (none)",
          [Threads_connected |-> StrV("12")], "pretty", FALSE)

\* the rule just displayed has an empty condition and its expression is one
\* variable, bound to an integer written in digits, at most 15 of them, without
\* a leading zero
ShowsIntegerVariable ==
    /\ pc = "condition" /\ output_mode = "pretty"
    /\ rule.comp = ""
    /\ rule.expr \in DOMAIN variables
    /\ variables[rule.expr].d # ""
    /\ Span(variables[rule.expr].d, Digit) = Len(variables[rule.expr].d)
    /\ Len(variables[rule.expr].d) <= 15
    /\ (Ch(variables[rule.expr].d, 1) # "0" \/ variables[rule.expr].d = "0")

\* C5 as stated: the scenario prints 'Active Threads: 12' and nothing else, and
\* a rule with an empty condition whose expression is one variable bound to an
\* integer-valued numeric string is displayed as label, colon, the integer as
\* written
C5_IntegerShownAsWritten ==
    /\ C5_ActiveThreadsRan => out = <<Emit("metric", "Active Threads: 12")>>
    /\ ShowsIntegerVariable =>
          displayed_metric_line = rule.label \o ": " \o variables[rule.expr].d

\* C5 amended: the scenario prints 'Active Threads: 12.0' and nothing else, and
\* in pretty mode such a rule is displayed as label, colon, the integer followed
\* by '.0' (the integer converted to a float)
C5_IntegerShownAsFloat ==
    /\ C5_ActiveThreadsRan => out = <<Emit("metric", "Active Threads: 12.0")>>
    /\ ShowsIntegerVariable =>
          /\ displayed_metric_line =
                 rule.label \o ": " \o variables[rule.expr].d \o ".0"
          /\ out[Len(out)] = Emit("metric", displayed_metric_line)

\* the scenario of C6 has run
C6_UptimeRan ==
    RanOn("Uptime too low ||| < 60 ||| Uptime ||| Consider increasing uptime",
          [Uptime |-> StrV("30")], "csv", TRUE)

\* the metric line m, then the header, then m and the recommendation line
MetricThenSection(m, recommendation) ==
    /\ Len(out) = 4
    /\ out[1] = Emit("metric", m)
    /\ IsHeader(out[2])
    /\ out[3].text = m
    /\ out[4].text = recommendation

\* C6 as stated: the scenario prints the metric line 'Uptime too low,30.0', and
\* in the recommendation section 'Uptime too low,30.0' followed by
\* 'Recommendation,Consider increasing uptime'
C6_UptimeShownAsFloat ==
    C6_UptimeRan =>
        MetricThenSection("Uptime too low,30.0",
                          "Recommendation,Consider increasing uptime")

\* C6 amended: the scenario prints the metric line 'Uptime too low,30', and in
\* the recommendation section 'Uptime too low,30' followed by
\* 'Recommendation,Consider increasing uptime'
C6_UptimeShownAsInteger ==
    C6_UptimeRan =>
        MetricThenSection("Uptime too low,30",
                          "Recommendation,Consider increasing uptime")

\* C7: in pretty mode a rule whose expression text contains 'version', in any
\* case, and is a variable bound to a string is displayed as label, colon, that
\* string in its original form
C7_VersionKeepsItsText ==
    (/\ pc = "condition" /\ output_mode = "pretty"
     /\ Contains(lower(rule.expr), "version")
     /\ rule.expr \in DOMAIN variables)
    => displayed_metric_line = rule.label \o ": " \o variables[rule.expr].d

\* eval of the substituted expression of line i raised
EvalFailed == ~RuleAt(i).evaluated

Separator == IF output_mode = "csv" THEN "," ELSE ": "

\* C8 as stated: a rule whose expression cannot be evaluated is not aborted, and
\* its metric line is the label, the separator of the mode and the
\* post-substitution text as it is, in both modes
C8_FallbackTextAsItIs ==
    /\ pc = "aborted" => ~EvalFailed
    /\ (pc = "condition" /\ EvalFailed) =>
          displayed_metric_line = rule.label \o Separator \o RuleAt(i).parsed_expr

\* the text is displayed through the numeric branch of round2_if_numeric
RoundedText(text) ==
    /\ output_mode = "pretty"
    /\ is_numeric_string(text)
    /\ ~Contains(lower(rule.expr), "version")

\* C8 amended: a rule whose expression cannot be evaluated is not aborted, and
\* its metric line is the label, the separator of the mode and the
\* post-substitution text as it is, except in pretty mode for a text that
\* matches the numeric pattern under an expression without 'version', which is
\* shown as that number rounded to two decimals ('012' as '12.0')
C8_FallbackTextUnlessNumeric ==
    /\ pc = "aborted" => ~EvalFailed
    /\ (pc = "condition" /\ EvalFailed) =>
          /\ out[Len(out)] = Emit("metric", displayed_metric_line)
          /\ displayed_metric_line =
                 rule.label \o Separator \o
                     (IF RoundedText(RuleAt(i).parsed_expr)
                      THEN PyStr(Round2(StrToFloat(RuleAt(i).parsed_expr)))
                      ELSE RuleAt(i).parsed_expr)
          /\ (RoundedText(RuleAt(i).parsed_expr) /\ RuleAt(i).parsed_expr = "012")
                => displayed_metric_line = rule.label \o ": 12.0"

\* a rule whose substituted expression differs from its expression and does not
\* evaluate has been displayed
C8_SubstitutedTextShown ==
    /\ pc = "condition" /\ EvalFailed
    /\ RuleAt(i).parsed_expr # rule.expr
    /\ ~RoundedText(RuleAt(i).parsed_expr)

\* evaluating the compiled condition raises
ConditionFails(comp, val) ==
    ~PyEval(build_condition_expression(comp, "v"), ConditionEnv(val)).ok

\* the condition field is empty, or evaluating the compiled condition fails
CannotTrigger(comp, val) == comp = "" \/ ConditionFails(comp, val)

\* the loop is at a rule line
AtRule == pc = "loop" /\ i <= Len(lines) /\ Line(lines[i]).is_rule

\* C9: a rule whose condition field is empty, or whose compiled condition fails
\* to evaluate, first has its metric line printed and then, at its condition,
\* leaves the recommendation list and the output unchanged and hands over to the
\* next line
C9_NoPairWithoutCondition ==
    [][/\ (AtRule /\ CannotTrigger(RuleAt(i).rule.comp, RuleAt(i).value)) =>
             /\ pc' = "condition"
             /\ Len(out') = Len(out) + 1 /\ IsMetric(out'[Len(out')])
             /\ recommendation_pairs' = recommendation_pairs
       /\ (pc = "condition" /\ CannotTrigger(rule.comp, value)) =>
             /\ IsMetric(out[Len(out)])
             /\ recommendation_pairs' = recommendation_pairs
             /\ out' = out
             /\ i' = i + 1 /\ pc' = "loop"]_vars

\* the comparison operator a condition text begins with, "" if none
LeadingOperator(comp) ==
    IF Len(comp) >= 2 /\ Take(comp, 2) \in CmpOps THEN Take(comp, 2)
    ELSE IF comp # "" /\ Ch(comp, 1) \in CmpOps THEN Ch(comp, 1)
    ELSE ""

RightHandSide(comp) == strip(Drop(comp, Len(LeadingOperator(comp))))

\* a comparison operator followed by a number
IsComparison(comp) ==
    /\ LeadingOperator(comp) # ""
    /\ is_numeric_string(RightHandSide(comp))
    /\ EvalNumber(RightHandSide(comp)).ok

\* derived value OP right-hand side
ComparisonHolds(val, comp) ==
    PyBool(Compare(val, LeadingOperator(comp), EvalNumber(RightHandSide(comp)).v).v)

\* evaluate_and_print is through with a rule: rule and value are its fields
\* and its derived value
ThroughWithRule ==
    \/ pc = "aborted"
    \/ pc \in {"loop", "done"} /\ i > 1 /\ Line(lines[i - 1]).is_rule

\* the last pair of the list is the pair of that rule
LastPairIsOfRule ==
    /\ recommendation_pairs # <<>>
    /\ recommendation_pairs[Len(recommendation_pairs)] =
           <<displayed_metric_line, rule.output>>
    /\ pc # "aborted"

\* C10: a rule whose condition is a comparison operator followed by a number and
\* whose derived value is a number has triggered a recommendation, once
\* evaluate_and_print is through with it, if and only if the derived value,
\* before any rounding, stands in that comparison to the number
C10_TriggersIffComparisonHolds ==
    (ThroughWithRule /\ IsComparison(rule.comp) /\ IsNumber(value))
    => (LastPairIsOfRule <=> ComparisonHolds(value, rule.comp))

\* the rule just displayed is the substr rule of call c, on a variable of the table
SubstrDisplayed(c) ==
    /\ pc = "condition"
    /\ lines[i] = SubstrRule(c)
    /\ c.subject \in DOMAIN variables

\* the string form of the subject of call c
StringForm(c) == variables[c.subject].d

\* the part of text from offset start to its end; a negative offset counts
\* from the end of the text
FromOffset(text, start) ==
    IF start >= 0 THEN Drop(text, IF start > Len(text) THEN Len(text) ELSE start)
    ELSE Drop(text, IF Len(text) + start < 0 THEN 0 ELSE Len(text) + start)

\* at most length characters of text starting at offset start: a prefix of
\* the part from start, cut only by length when start is not negative
AtMostFrom(part, text, start, length) ==
    /\ startswith(FromOffset(text, start), part)
    /\ Len(part) <= length
    /\ start >= 0 =>
          Len(part) = (IF length < Len(FromOffset(text, start)) THEN length
                       ELSE Len(FromOffset(text, start)))

SubstrAsSpecified(c, result) ==
    /\ result.t = "str"
    /\ IF ~c.has_length \/ c.length < 0
       THEN result.d = FromOffset(StringForm(c), c.start)
       ELSE AtMostFrom(result.d, StringForm(c), c.start, c.length)

\* C11: the derived value of a rule whose expression is substr(s, start) or
\* substr(s, start, length) is, when length is left out or negative, the part
\* of the string form of s from offset start to the end of the string, and,
\* when length is not negative, at most length characters starting at offset
\* start
C11_SubstrReturnsPart ==
    \A c \in SubstrCalls : SubstrDisplayed(c) => SubstrAsSpecified(c, value)
====
